---- MODULE Spec2Model ----
(***************************************************************************)
(* S3BucketConnector (xetra/common/s3.py): construction from environment   *)
(* variables, list_files_in_prefix, read_csv_to_df and write_df_to_s3,     *)
(* run by concurrent callers against one bucket whose objects are also put *)
(* and deleted directly, as the unit tests do.                             *)
(*                                                                         *)
(* A text is a sequence of tokens: a column name, a cell value, the field  *)
(* separator "," or the line terminator "\n".  A key is a sequence of      *)
(* characters.                                                             *)
(***************************************************************************)
EXTENDS Integers, Sequences, FiniteSets, TLC

VARIABLES env, conn, bucket, pc, args, trace, result

vars == <<env, conn, bucket, pc, args, trace, result>>

-----------------------------------------------------------------------------
(* Bounds and input sets *)

MaxCols == 2
MaxRows == 1

Callers == {"caller1", "caller2"}

EnvNames == {"AWS_ACCESS_KEY_ID", "AWS_SECRET_ACCESS_KEY"}

Keys == {<<"p", "/", "a">>, <<"p", "/", "b">>, <<"q">>}

Prefixes == {<<>>, <<"p", "/">>, <<"n", "/">>}

Formats == {"csv", "parquet", "wrong_format"}

ColNames == <<"col1", "col2", "col3", "col4">>

Str(s) == [dtype |-> "object", v |-> s]

Int64(s) == [dtype |-> "int64", v |-> s]

\* the sample row: text in the odd columns, digits in the even ones
SampleCell(j) == IF j % 2 = 1 THEN Str("A") ELSE Str("1")

NumericTokens == {"0", "1", "2"}

\* the frames of up to MaxCols columns and up to MaxRows copies of the sample row
Tables ==
    { [cols |-> SubSeq(ColNames, 1, nc),
       rows |-> [r \in 1..nr |-> [j \in 1..nc |-> SampleCell(j)]]] :
      nc \in 0..MaxCols, nr \in 0..MaxRows }

Absent == [kind |-> "absent"]

TextBody(text) == [kind |-> "text", text |-> text]

ParquetBody(t) == [kind |-> "parquet", table |-> t]

Bodies ==
    { TextBody(<<>>),
      TextBody(<<"col1", ",", "col2", "\n", "A", ",", "1">>),
      TextBody(<<"col1", "\n", "A", "\n">>) }

-----------------------------------------------------------------------------
(* Outcomes of a call and events of its trace *)

None == [kind |-> "none"]

True == [kind |-> "true"]

Raise(exc) == [kind |-> "raise", exc |-> exc]

Ok(val) == [kind |-> "ok", val |-> val]

TableResult(t) == [kind |-> "table", table |-> t]

FilesResult(files) == [kind |-> "files", files |-> files]

Pending == [kind |-> "pending"]

EndpointUrl == "https://s3.eu-central-1.amazonaws.com"

BucketName == "test-bucket"

\* 'Reading file %s/%s/%s'
ReadingLog(k) ==
    [e |-> "log", msg |-> "Reading file",
     endpoint |-> EndpointUrl, bucket |-> BucketName, key |-> k]

\* 'Writing file to %s/%s/%s'
WritingLog(k) ==
    [e |-> "log", msg |-> "Writing file to",
     endpoint |-> EndpointUrl, bucket |-> BucketName, key |-> k]

\* 'The dataframe is empty! No file will be written!'
EmptyLog == [e |-> "log", msg |-> "The dataframe is empty"]

\* 'The file format %s is not supported to be written to S3!'
UnsupportedLog(f) == [e |-> "log", msg |-> "The file format is not supported", fmt |-> f]

GetEvent(k) == [e |-> "get", key |-> k]

PutEvent(k, body) == [e |-> "put", key |-> k, body |-> body]

-----------------------------------------------------------------------------
(* constants.py: S3FileTypes is a plain class, its members are str objects; *)
(* MetaProcessFormat derives from Enum                                      *)

PyStr(s) == [type |-> "str", s |-> s]

S3FileTypes == [CSV |-> PyStr("csv"), PARQUET |-> PyStr("parquet")]

\* obj.value
GetValue(obj) ==
    IF obj.type = "enum" THEN Ok(obj.value) ELSE Raise("AttributeError")

-----------------------------------------------------------------------------
(* pandas: DataFrame.empty, to_csv(index=False), to_parquet, read_csv *)

\* variant: a frame counts as empty only when it has no rows
DataFrameEmptyRowsOnly(t) == Len(t.rows) = 0

DataFrameEmpty(t) == Len(t.cols) = 0 \/ Len(t.rows) = 0

RECURSIVE JoinFields(_)
JoinFields(fields) ==
    IF Len(fields) = 0 THEN <<>>
    ELSE IF Len(fields) = 1 THEN <<fields[1]>>
    ELSE <<fields[1], ",">> \o JoinFields(Tail(fields))

RECURSIVE JoinRows(_)
JoinRows(rows) ==
    IF Len(rows) = 0 THEN <<>>
    ELSE JoinFields([i \in 1..Len(rows[1]) |-> rows[1][i].v]) \o <<"\n">>
         \o JoinRows(Tail(rows))

ToCsv(t) == TextBody(JoinFields(t.cols) \o <<"\n">> \o JoinRows(t.rows))

ToParquet(t) == ParquetBody(t)

\* the segments of seq between occurrences of d
RECURSIVE SplitOn(_, _)
SplitOn(seq, d) ==
    IF \A i \in 1..Len(seq) : seq[i] # d THEN <<seq>>
    ELSE LET i == CHOOSE j \in 1..Len(seq) :
                      seq[j] = d /\ \A m \in 1..(j - 1) : seq[m] # d
         IN <<SubSeq(seq, 1, i - 1)>> \o SplitOn(SubSeq(seq, i + 1, Len(seq)), d)

NonBlank(line) == Len(line) > 0

FieldOf(segment) == IF Len(segment) = 0 THEN "" ELSE segment[1]

FieldsOf(line, sep) ==
    LET segs == SplitOn(line, sep) IN [i \in 1..Len(segs) |-> FieldOf(segs[i])]

\* dtype inference of one column: all cells numeric -> int64, else object
InferColumn(cells) ==
    IF \A i \in 1..Len(cells) : cells[i] \in NumericTokens
    THEN [i \in 1..Len(cells) |-> Int64(cells[i])]
    ELSE [i \in 1..Len(cells) |-> Str(cells[i])]

\* pd.read_csv(StringIO(text), delimiter=sep) on a rectangular text
ReadCsv(text, sep) ==
    LET lines == SelectSeq(SplitOn(text, "\n"), NonBlank) IN
    IF Len(lines) = 0 THEN Raise("EmptyDataError")
    ELSE LET header == FieldsOf(lines[1], sep)
             raw    == [r \in 1..(Len(lines) - 1) |-> FieldsOf(lines[r + 1], sep)]
             column(j) == InferColumn([r \in 1..Len(raw) |-> raw[r][j]])
         IN TableResult([cols |-> header,
                         rows |-> [r \in 1..Len(raw) |->
                                     [j \in 1..Len(header) |-> column(j)[r]]]])

-----------------------------------------------------------------------------
(* The storage service: the objects of the bucket *)

StartsWith(k, prefix) ==
    /\ Len(prefix) <= Len(k)
    /\ SubSeq(k, 1, Len(prefix)) = prefix

\* variant: the listing ignores the prefix (objects.all())
ObjectsAll(b, prefix) == { k \in DOMAIN b : b[k] # Absent }

\* self._bucket.objects.filter(Prefix=prefix): the keys of the listing
ObjectsFilter(b, prefix) ==
    { k \in DOMAIN b : b[k] # Absent /\ StartsWith(k, prefix) }

\* the orders in which the service may yield a set of keys
Orderings(S) ==
    { f \in [1..Cardinality(S) -> S] :
        \A i, j \in 1..Cardinality(S) : i # j => f[i] # f[j] }

\* variant: a missing object reads as an empty body
GetObjectOrEmpty(b, k) ==
    IF b[k] = Absent THEN Ok(TextBody(<<>>)) ELSE Ok(b[k])

\* self._bucket.Object(key=key).get()
GetObject(b, k) ==
    IF b[k] = Absent THEN Raise("NoSuchKey") ELSE Ok(b[k])

\* variant: os.environ.get(name), which never raises
EnvLookupGet(e, name) == Ok(name)

\* os.environ[name]
EnvLookup(e, name) ==
    IF name \in e THEN Ok(name) ELSE Raise("KeyError")

-----------------------------------------------------------------------------
(* S3BucketConnector methods as functions of the bucket *)

\* __put_object: log the destination, then put
PutObject(b, body, k) ==
    [result |-> True,
     trace  |-> <<WritingLog(k), PutEvent(k, body)>>,
     bucket |-> [b EXCEPT ![k] = body]]

Fail(b, exc, events) == [result |-> Raise(exc), trace |-> events, bucket |-> b]

\* variant: the format dispatch runs before the empty check
WriteDfToS3DispatchFirst(b, t, k, f) ==
    LET csv == GetValue(S3FileTypes.CSV) IN
    IF csv.kind = "raise" THEN Fail(b, csv.exc, <<>>)
    ELSE IF f \notin {csv.val, "parquet"}
    THEN Fail(b, "WrongFormatException",
              <<UnsupportedLog(f)>>)
    ELSE IF Len(t.cols) = 0 \/ Len(t.rows) = 0
    THEN [result |-> None,
          trace  |-> <<EmptyLog>>,
          bucket |-> b]
    ELSE PutObject(b, IF f = csv.val THEN ToCsv(t) ELSE ToParquet(t), k)

\* write_df_to_s3
WriteDfToS3(b, t, k, f) ==
    IF DataFrameEmpty(t)
    THEN [result |-> None,
          trace  |-> <<EmptyLog>>,
          bucket |-> b]
    ELSE LET csv == GetValue(S3FileTypes.CSV) IN
         IF csv.kind = "raise" THEN Fail(b, csv.exc, <<>>)
         ELSE IF f = csv.val THEN PutObject(b, ToCsv(t), k)
         ELSE LET pq == GetValue(S3FileTypes.PARQUET) IN
              IF pq.kind = "raise" THEN Fail(b, pq.exc, <<>>)
              ELSE IF f = pq.val THEN PutObject(b, ToParquet(t), k)
              ELSE Fail(b, "WrongFormatException",
                        <<UnsupportedLog(f)>>)

\* read_csv_to_df after its log line: get, decode, parse
ReadCsvToDf(b, k) ==
    LET got == GetObject(b, k) IN
    IF got.kind = "raise" THEN got
    ELSE IF got.val.kind # "text" THEN Raise("UnicodeDecodeError")
    ELSE ReadCsv(got.val.text, ",")

-----------------------------------------------------------------------------
(* State machine *)

Init ==
    /\ env \in SUBSET EnvNames
    /\ conn = [state |-> "none"]
    /\ bucket = [k \in Keys |-> Absent]
    /\ pc = [c \in Callers |-> "idle"]
    /\ args = [c \in Callers |-> [op |-> "none"]]
    /\ trace = [c \in Callers |-> <<>>]
    /\ result = [c \in Callers |-> Pending]

\* test setUp: os.environ[name] = ...
SetEnv(name) ==
    /\ name \notin env
    /\ env' = env \cup {name}
    /\ UNCHANGED <<conn, bucket, pc, args, trace, result>>

\* S3BucketConnector.__init__
Construct(access_key, secret_key) ==
    /\ conn.state # "ready"
    /\ LET ak == EnvLookup(env, access_key)
           sk == EnvLookup(env, secret_key)
       IN conn' = IF ak.kind = "raise"
                  THEN [state |-> "failed", exc |-> ak.exc,
                        access_key |-> access_key, secret_key |-> secret_key]
                  ELSE IF sk.kind = "raise"
                  THEN [state |-> "failed", exc |-> sk.exc,
                        access_key |-> access_key, secret_key |-> secret_key]
                  ELSE [state |-> "ready"]
    /\ UNCHANGED <<env, bucket, pc, args, trace, result>>

\* direct put on the bucket (tests: self.s3_bucket.put_object)
BucketPut(k, body) ==
    /\ bucket[k] # body
    /\ bucket' = [bucket EXCEPT ![k] = body]
    /\ UNCHANGED <<env, conn, pc, args, trace, result>>

\* direct delete on the bucket (tests: self.s3_bucket.delete_objects)
BucketDelete(k) ==
    /\ bucket[k] # Absent
    /\ bucket' = [bucket EXCEPT ![k] = Absent]
    /\ UNCHANGED <<env, conn, pc, args, trace, result>>

CanCall(c) == conn.state = "ready" /\ pc[c] \in {"idle", "done"}

ListFilesInPrefix(c, prefix) ==
    /\ CanCall(c)
    /\ \E files \in Orderings(ObjectsFilter(bucket, prefix)) :
          result' = [result EXCEPT ![c] = FilesResult(files)]
    /\ args' = [args EXCEPT ![c] = [op |-> "list", prefix |-> prefix]]
    /\ trace' = [trace EXCEPT ![c] = <<>>]
    /\ pc' = [pc EXCEPT ![c] = "done"]
    /\ UNCHANGED <<env, conn, bucket>>

\* read_csv_to_df, line 55: the call starts and logs the location
ReadLog(c, k) ==
    /\ CanCall(c)
    /\ args' = [args EXCEPT ![c] = [op |-> "read", key |-> k]]
    /\ trace' = [trace EXCEPT ![c] = <<ReadingLog(k)>>]
    /\ result' = [result EXCEPT ![c] = Pending]
    /\ pc' = [pc EXCEPT ![c] = "get"]
    /\ UNCHANGED <<env, conn, bucket>>

\* read_csv_to_df, lines 56-59
ReadGet(c) ==
    /\ pc[c] = "get"
    /\ trace' = [trace EXCEPT ![c] = Append(@, GetEvent(args[c].key))]
    /\ result' = [result EXCEPT ![c] = ReadCsvToDf(bucket, args[c].key)]
    /\ pc' = [pc EXCEPT ![c] = "done"]
    /\ UNCHANGED <<env, conn, bucket, args>>

WriteCall(c, t, k, f) ==
    /\ CanCall(c)
    /\ LET w == WriteDfToS3(bucket, t, k, f) IN
          /\ bucket' = w.bucket
          /\ trace' = [trace EXCEPT ![c] = w.trace]
          /\ result' = [result EXCEPT ![c] = w.result]
    /\ args' = [args EXCEPT ![c] = [op |-> "write", table |-> t, key |-> k, fmt |-> f]]
    /\ pc' = [pc EXCEPT ![c] = "done"]
    /\ UNCHANGED <<env, conn>>

\* one caller at a time
Sequential == {"caller1"}

Next ==
    \/ \E n \in EnvNames : SetEnv(n)
    \/ \E ak, sk \in EnvNames : Construct(ak, sk)
    \/ \E k \in Keys, body \in Bodies : BucketPut(k, body)
    \/ \E k \in Keys : BucketDelete(k)
    \/ \E c \in Sequential, p \in Prefixes : ListFilesInPrefix(c, p)
    \/ \E c \in Sequential, k \in Keys : ReadLog(c, k)
    \/ \E c \in Sequential : ReadGet(c)
    \/ \E c \in Sequential, t \in Tables, k \in Keys, f \in Formats : WriteCall(c, t, k, f)

Spec == Init /\ [][Next]_vars

\* several callers sharing the connector, on the keys under one prefix
SharedKeys == { k \in Keys : StartsWith(k, <<"p", "/">>) }

InitShared ==
    /\ env = EnvNames
    /\ conn = [state |-> "ready"]
    /\ bucket = [k \in Keys |-> Absent]
    /\ pc = [c \in Callers |-> "idle"]
    /\ args = [c \in Callers |-> [op |-> "none"]]
    /\ trace = [c \in Callers |-> <<>>]
    /\ result = [c \in Callers |-> Pending]

NextShared ==
    \/ \E k \in SharedKeys, body \in Bodies : BucketPut(k, body)
    \/ \E c \in Callers, k \in SharedKeys : ReadLog(c, k)
    \/ \E c \in Callers : ReadGet(c)
    \/ \E c \in Callers, t \in Tables, k \in SharedKeys, f \in Formats : WriteCall(c, t, k, f)

SpecShared == InitShared /\ [][NextShared]_vars

-----------------------------------------------------------------------------
(* Vocabulary of the properties *)

Supported == {"csv", "parquet"}

NoData(t) == Len(t.cols) = 0 \/ Len(t.rows) = 0

OnlyStrings(t) ==
    \A r \in 1..Len(t.rows) : \A j \in 1..Len(t.rows[r]) : t.rows[r][j].dtype = "object"

Encoding(t, f) == IF f = "csv" THEN ToCsv(t) ELSE ToParquet(t)

EventsAt(tr, kind) == { i \in 1..Len(tr) : tr[i].e = kind }

\* p \o s = k for some tail s of k
IsPrefixOf(p, k) == \E n \in 0..Len(k) : p \o SubSeq(k, n + 1, Len(k)) = k

WriteDone(c) == pc[c] = "done" /\ args[c].op = "write"

ReadDone(c) == pc[c] = "done" /\ args[c].op = "read"

ListDone(c) == pc[c] = "done" /\ args[c].op = "list"

\* the step is a write_df_to_s3 call of caller c
WriteStep(c) ==
    /\ args'[c].op = "write"
    /\ WriteCall(c, args'[c].table, args'[c].key, args'[c].fmt)

\* the step is a list_files_in_prefix call of caller c
ListStep(c) ==
    /\ args'[c].op = "list"
    /\ ListFilesInPrefix(c, args'[c].prefix)

-----------------------------------------------------------------------------
\* C1: every write_df_to_s3 call with a format other than 'csv' and 'parquet'
\* raises WrongFormatException, having logged the unsupported format exactly
\* once and nothing else, issues no put and leaves the bucket unchanged.
C1_UnsupportedFormatRaises ==
    [][\A c \in Callers :
          (WriteStep(c) /\ args'[c].fmt \notin Supported) =>
             /\ result'[c] = Raise("WrongFormatException")
             /\ trace'[c] = <<UnsupportedLog(args'[c].fmt)>>
             /\ bucket' = bucket]_vars

\* C2: every write_df_to_s3 call with a non-empty table and format 'csv' or
\* 'parquet' returns True and issues exactly one put: the bucket then holds the
\* table's encoding at the key and every other key is unchanged.
C2_SupportedWriteStoresOneObject ==
    [][\A c \in Callers :
          (WriteStep(c) /\ ~NoData(args'[c].table) /\ args'[c].fmt \in Supported) =>
             /\ result'[c] = True
             /\ Cardinality(EventsAt(trace'[c], "put")) = 1
             /\ bucket' = [bucket EXCEPT
                             ![args'[c].key] = Encoding(args'[c].table, args'[c].fmt)]]_vars

\* C3: every write_df_to_s3 call with an empty table leaves every key and every
\* object of the bucket as it was, issues no put, logs the empty-table event and
\* returns None, which is neither True nor a raised error.
C3_EmptyWriteIsNoOp ==
    [][\A c \in Callers :
          (WriteStep(c) /\ NoData(args'[c].table)) =>
             /\ bucket' = bucket
             /\ EventsAt(trace'[c], "put") = {}
             /\ \E i \in 1..Len(trace'[c]) : trace'[c][i] = EmptyLog
             /\ result'[c] = None
             /\ result'[c] # True
             /\ result'[c].kind # "raise"]_vars

\* C3 witness: an empty-table write has returned None while the bucket holds an
\* object at its key.
C3_Witness ==
    \E c \in Callers :
       /\ WriteDone(c)
       /\ NoData(args[c].table)
       /\ result[c] = None
       /\ bucket[args[c].key] # Absent

\* C4: list_files_in_prefix(prefix) returns exactly the keys now in the bucket
\* that start with prefix, each once, in whatever order the service yields them,
\* the empty sequence when none matches, and leaves the bucket unchanged.
C4_ListReturnsExactlyTheMatchingKeys ==
    [][\A c \in Callers :
          ListStep(c) =>
             /\ result'[c].kind = "files"
             /\ LET files == result'[c].files IN
                   /\ { files[i] : i \in 1..Len(files) }
                        = { k \in Keys : bucket[k] # Absent
                                         /\ IsPrefixOf(args'[c].prefix, k) }
                   /\ \A i, j \in 1..Len(files) : i # j => files[i] # files[j]
             /\ bucket' = bucket]_vars

\* C4 witness: a listing returned the two keys under its prefix while the bucket
\* also holds a key outside the prefix.
C4_Witness ==
    \E c \in Callers :
       /\ ListDone(c)
       /\ Len(args[c].prefix) > 0
       /\ Len(result[c].files) = 2
       /\ \E k \in Keys : bucket[k] # Absent /\ ~IsPrefixOf(args[c].prefix, k)

\* C5: read_csv_to_df of a key that is not in the bucket ends with the NoSuchKey
\* error of the storage get, returns no table, issues exactly one get and leaves
\* the bucket unchanged.
C5_ReadMissingKeyRaises ==
    [][\A c \in Callers :
          (ReadGet(c) /\ bucket[args[c].key] = Absent) =>
             /\ result'[c] = Raise("NoSuchKey")
             /\ Cardinality(EventsAt(trace'[c], "get")) = 1
             /\ bucket' = bucket]_vars

\* C5 witness: a read of a missing key has ended with NoSuchKey.
C5_Witness ==
    \E c \in Callers :
       /\ ReadDone(c)
       /\ bucket[args[c].key] = Absent
       /\ result[c] = Raise("NoSuchKey")

C7_LogBeforeStorageCall ==
    \A c \in Callers :
       /\ (args[c].op = "read" /\ pc[c] \in {"get", "done"}) =>
             /\ EventsAt(trace[c], "log") = {1}
             /\ trace[c][1] = ReadingLog(args[c].key)
             /\ \A i \in EventsAt(trace[c], "get") : i > 1
       /\ (WriteDone(c) /\ ~NoData(args[c].table) /\ args[c].fmt \in Supported) =>
             /\ EventsAt(trace[c], "log") = {1}
             /\ trace[c][1] = WritingLog(args[c].key)
             /\ \A i \in EventsAt(trace[c], "put") : i > 1

\* C8: with several callers on one connector, each write of a non-empty table in
\* a supported format stores the complete encoding of its own table under its
\* own key and touches no other key, each read returns what is stored at its own
\* key, every object is always one complete body, and no call changes the
\* connector.
C8_ConcurrentCallsDoNotInterfere ==
    [][/\ \A c \in Callers :
             (WriteStep(c) /\ ~NoData(args'[c].table) /\ args'[c].fmt \in Supported) =>
                /\ bucket'[args'[c].key] = Encoding(args'[c].table, args'[c].fmt)
                /\ \A other \in Keys \ {args'[c].key} : bucket'[other] = bucket[other]
       /\ \A c \in Callers :
             ReadGet(c) =>
                /\ bucket' = bucket
                /\ (bucket[args[c].key] # Absent /\ bucket[args[c].key].kind = "text") =>
                      result'[c] = ReadCsv(bucket[args[c].key].text, ",")
       /\ \A k \in Keys :
             bucket'[k] \in {Absent} \cup Bodies
                            \cup { Encoding(t, f) : t \in Tables, f \in Supported }
       /\ conn' = conn]_vars

\* C9: construction looks both credentials up in the environment under the names
\* it is given; when either name is unset it fails (KeyError) and there is no
\* connector on which a call could run; when both are set it succeeds.
C9_ConstructionNeedsBothVariables ==
    /\ [][\A ak, sk \in EnvNames :
             Construct(ak, sk) =>
                /\ (ak \notin env \/ sk \notin env) =>
                      conn'.state = "failed" /\ conn'.exc = "KeyError"
                /\ (ak \in env /\ sk \in env) => conn'.state = "ready"]_vars
    /\ [](\A c \in Callers : pc[c] # "idle" => conn.state = "ready")

\* C9 witness: construction has failed with the access key variable set and the
\* secret key variable unset.
C9_Witness ==
    /\ conn.state = "failed"
    /\ conn.access_key \in env
    /\ conn.secret_key \notin env

\* C10: for an empty table write_df_to_s3 returns None whatever the format,
\* raising nothing and logging only the empty-table event; every finished call
\* has exactly one of the outcomes None, True, raised error, and None is the
\* outcome exactly when the table is empty.
C10_EmptyCheckPrecedesDispatch ==
    \A c \in Callers :
       WriteDone(c) =>
          /\ result[c].kind \in {"none", "true", "raise"}
          /\ NoData(args[c].table) <=> result[c] = None
          /\ NoData(args[c].table) => trace[c] = <<EmptyLog>>

\* C10 witness: an empty table written with an unsupported format returned None.
C10_Witness ==
    \E c \in Callers :
       /\ WriteDone(c)
       /\ NoData(args[c].table)
       /\ args[c].fmt \notin Supported
       /\ result[c] = None
       /\ trace[c] = <<EmptyLog>>

====
